---- MODULE Spec2Model ----
(***************************************************************************)
(* Model of the `blocked!` procedural macro (src/blocked/src/lib.rs).      *)
(*                                                                         *)
(* Text that the code inspects character by character (issue patterns,     *)
(* remote URLs, the API key, endpoint URLs) is a sequence of one-character *)
(* strings.  Text that the code only passes along (messages, reasons,      *)
(* state names) is a TLA+ string.                                          *)
(***************************************************************************)
EXTENDS Integers, Sequences, FiniteSets

\* Length bound of the exhaustively enumerated issue patterns.
MaxLen == 3

----------------------------------------------------------------------------
(* Option and Result values *)

None == <<>>
Some(x) == <<x>>

Ok(v) == [kind |-> "Ok", val |-> v, msg |-> ""]
\* error(message): a syn::Error at the call site
error(m) == [kind |-> "Err", val |-> <<>>, msg |-> m]
\* a panic unwinding out of the function
Panic(m) == [kind |-> "Panic", val |-> <<>>, msg |-> m]

UnwrapNone == "called Option::unwrap() on a None value"

----------------------------------------------------------------------------
(* Character classes of the regex crate, restricted to ASCII *)

Digit == {"0","1","2","3","4","5","6","7","8","9"}
Alpha == {"a","b","c","d","e","f","g","h","i","j","k","l","m",
          "n","o","p","q","r","s","t","u","v","w","x","y","z"}
\* \w
Word == Alpha \cup Digit \cup {"_"}
\* [\w-]
WordHyphen == Word \cup {"-"}
\* [#/]
Sep == {"#", "/"}

----------------------------------------------------------------------------
(* A regular expression is a sequence of alternatives; an alternative is a *)
(* sequence of atoms; an atom is a literal text, or a character class with *)
(* a quantifier.                                                           *)
(*   q = "1": exactly one    q = "?": greedy optional                      *)
(*   q = "+": greedy one or more    q = "=": the literal text lit          *)
(* inv = TRUE complements the class.                                       *)

Atom(q, cls, inv, lit) == [q |-> q, cls |-> cls, inv |-> inv, lit |-> lit]
One(cls) == << Atom("1", cls, FALSE, << >>) >>
Opt(cls) == << Atom("?", cls, FALSE, << >>) >>
Plus(cls) == << Atom("+", cls, FALSE, << >>) >>
\* `.` : any character but a line feed
Dot == << Atom("1", {"\n"}, TRUE, << >>) >>
Lit(str) == << Atom("=", {}, FALSE, str) >>

\* The text lit stands in s at position i.
LitAt(s, i, lit) ==
    i + Len(lit) - 1 <= Len(s) /\ SubSeq(s, i, i + Len(lit) - 1) = lit

In(c, a) == (c \in a.cls) # a.inv

Fail == << >>

\* Length of the longest run of characters of atom a starting at s[i].
RunLen(s, i, a) ==
    LET stops == {k \in i..Len(s) : ~In(s[k], a)}
    IN IF stops = {} THEN Len(s) + 1 - i
       ELSE (CHOOSE k \in stops : \A l \in stops : k <= l) - i

\* The positions after atom a matched at s[i], in the order in which a
\* backtracking matcher tries them: a greedy quantifier takes all it can
\* first and gives up one character at a time.
Tries(a, s, i) ==
    LET here == i <= Len(s) /\ In(s[i], a)
        n == RunLen(s, i, a)
    IN CASE a.q = "1" -> IF here THEN <<i + 1>> ELSE << >>
         [] a.q = "?" -> IF here THEN <<i + 1, i>> ELSE <<i>>
         [] a.q = "+" -> [j \in 1..n |-> i + n + 1 - j]
         [] a.q = "=" -> IF LitAt(s, i, a.lit) THEN <<i + Len(a.lit)>> ELSE << >>

(* The first match of atoms k.. of alternative re against s from position  *)
(* i, the positions in `tries` being those left to try after atom k: the   *)
(* start position of every atom, then the position after the match; Fail   *)
(* if there is none.  OrElse is the match found with the first of tries,   *)
(* or the match with the others.                                           *)
RECURSIVE MatchFrom(_, _, _, _, _), OrElse(_, _, _, _, _, _)
MatchFrom(re, k, s, i, tries) ==
    IF k > Len(re) THEN <<i>>
    ELSE IF tries = << >> THEN Fail
    ELSE OrElse(MatchFrom(re, k + 1, s, Head(tries),
                          IF k < Len(re) THEN Tries(re[k + 1], s, Head(tries)) ELSE << >>),
                re, k, s, i, tries)

OrElse(rest, re, k, s, i, tries) ==
    IF rest # Fail THEN <<i>> \o rest ELSE MatchFrom(re, k, s, i, Tail(tries))

\* The first match of alternative re at position i.
MatchAt(re, s, i) == MatchFrom(re, 1, s, i, Tries(re[1], s, i))

NoMatch == [alt |-> 0, pos |-> << >>]

\* The alternatives that match at position i.
AltsAt(regex, s, i) == {n \in 1..Len(regex.alts) : MatchAt(regex.alts[n], s, i) # Fail}

\* The match at position i of the first of the alternatives alts.
FirstAlt(regex, s, i, alts) ==
    LET n == CHOOSE n \in alts : \A o \in alts : n <= o
    IN [alt |-> n, pos |-> MatchAt(regex.alts[n], s, i)]

\* The match at the leftmost position from i on, alts being the
\* alternatives that match at i.
RECURSIVE Scan(_, _, _, _)
Scan(regex, s, i, alts) ==
    IF alts # {} THEN FirstAlt(regex, s, i, alts)
    ELSE IF i > Len(s) THEN NoMatch
    ELSE Scan(regex, s, i + 1, AltsAt(regex, s, i + 1))

\* Regex::captures: unanchored, leftmost start, first alternative that matches.
captures(regex, s) == Scan(regex, s, 1, AltsAt(regex, s, 1))

\* Regex::is_match
is_match(regex, s) == captures(regex, s) # NoMatch

\* Captures::get(n): None for a group that the regex does not have or that
\* took no part in the match.
get(regex, s, m, n) ==
    IF n \in DOMAIN regex.groups /\ regex.groups[n].alt = m.alt
    THEN LET g == regex.groups[n]
         IN Some(SubSeq(s, m.pos[g.from], m.pos[g.to + 1] - 1))
    ELSE None

Grp(alt, from, to) == [alt |-> alt, from |-> from, to |-> to]

----------------------------------------------------------------------------
(* lazy_static! patterns *)

\* r"#?(\d+)"
ISSUE ==
    [alts |-> << Opt({"#"}) \o Plus(Digit) >>,
     groups |-> << Grp(1, 2, 2) >>]

\* r"[\w-]+[#/]\d+"   (no capture group)
REPOISSUE ==
    [alts |-> << Plus(WordHyphen) \o One(Sep) \o Plus(Digit) >>,
     groups |-> << >>]

\* Variant of OWNERREPOISSUE: the first two groups numbered the other way round.
OWNERREPOISSUE_swapped ==
    [alts |-> << Plus(WordHyphen) \o Lit(<<"/">>) \o Plus(WordHyphen) \o One(Sep) \o Plus(Digit) >>,
     groups |-> << Grp(1, 3, 3), Grp(1, 1, 1), Grp(1, 5, 5) >>]

\* r"([\w-]+)/([\w-]+)[#/](\d+)"
OWNERREPOISSUE ==
    [alts |-> << Plus(WordHyphen) \o Lit(<<"/">>) \o Plus(WordHyphen) \o One(Sep) \o Plus(Digit) >>,
     groups |-> << Grp(1, 1, 1), Grp(1, 3, 3), Grp(1, 5, 5) >>]

\* r"https?://github.com/[\w-]+/issues/[\w-]+[#/]\d+"
URL ==
    [alts |-> << Lit(<<"h","t","t","p">>) \o Opt({"s"}) \o Lit(<<":","/","/","g","i","t","h","u","b">>) \o Dot \o Lit(<<"c","o","m","/">>)
                 \o Plus(WordHyphen) \o Lit(<<"/","i","s","s","u","e","s","/">>) \o Plus(WordHyphen)
                 \o One(Sep) \o Plus(Digit) >>,
     groups |-> << >>]

\* r"(?:https://github.com/([\w-]+)/([\w-]+).git)|(?:git@github.com:([\w-]+)/([\w-]+).git)"
REMOTE ==
    LET h == Lit(<<"h","t","t","p","s",":","/","/","g","i","t","h","u","b">>) \o Dot \o Lit(<<"c","o","m","/">>)
        g == Lit(<<"g","i","t","@","g","i","t","h","u","b">>) \o Dot \o Lit(<<"c","o","m",":">>)
        tail == Plus(WordHyphen) \o Lit(<<"/">>) \o Plus(WordHyphen) \o Dot \o Lit(<<"g","i","t">>)
    IN [alts |-> << h \o tail, g \o tail >>,
        groups |-> << Grp(1, Len(h) + 1, Len(h) + 1), Grp(1, Len(h) + 3, Len(h) + 3),
                      Grp(2, Len(g) + 1, Len(g) + 1), Grp(2, Len(g) + 3, Len(g) + 3) >>]

\* Url::parse("https://api.github.com/repos/")
BASE == <<"h","t","t","p","s",":","/","/","a","p","i",".","g","i","t","h","u","b",".","c","o","m","/","r","e","p","o","s","/">>

\* The characters a URL scheme continues with.
SchemeChar == Alpha \cup Digit \cup {"+", "-", "."}

(* Url::parse, as far as parse_issue_pattern depends on it: the text is   *)
(* accepted when it starts with a scheme (a letter, then letters, digits,  *)
(* +, - or . up to the first colon); a text without one is a relative      *)
(* reference, which has no base here.  The accepted text is kept as is.    *)
UrlParse(s) ==
    IF \E j \in 2..Len(s) :
          /\ s[j] = ":"
          /\ s[1] \in Alpha
          /\ \A k \in 2..(j - 1) : s[k] \in SchemeChar
    THEN Ok(s)
    ELSE error("relative URL without a base")

(* Url::join of BASE with "{}/{}/issues/{}".  Every fragment the code     *)
(* joins is made of captures of [\w-]+ and \d+, so it has no scheme, no    *)
(* dot segment and no leading slash, and the join appends it to the base,  *)
(* whose path ends with a slash.                                           *)
Join(base, org, repo, issue) ==
    LET frag == org \o <<"/">> \o repo \o <<"/","i","s","s","u","e","s","/">> \o issue
    IN IF \E j \in 1..Len(frag) : frag[j] = ":" /\ \A k \in 1..(j - 1) : frag[k] \in SchemeChar
       THEN UrlParse(frag)
       ELSE Ok(base \o frag)

----------------------------------------------------------------------------
(* The git repository found from the environment: NoRepo, or the remotes   *)
(* named upstream and origin, each None or Some(remote); a remote's url is *)
(* None when it is not valid unicode.                                      *)

NoRepo == [found |-> FALSE, upstream |-> None, origin |-> None]
Repo(upstream, origin) == [found |-> TRUE, upstream |-> upstream, origin |-> origin]
Remote(url) == [url |-> url]

\* The capture groups of the match m of REMOTE as (organisation, repository).
Coordinates(url, m) ==
    IF m = NoMatch THEN error("Failed to parse remote URL")
    ELSE Ok(<< IF get(REMOTE, url, m, 1) # None
               THEN get(REMOTE, url, m, 1)[1] ELSE get(REMOTE, url, m, 3)[1],
               IF get(REMOTE, url, m, 2) # None
               THEN get(REMOTE, url, m, 2)[1] ELSE get(REMOTE, url, m, 4)[1] >>)

OrgRepo(url) == Coordinates(url, captures(REMOTE, url))

\* Variant of try_get_org_repo: origin is looked up before upstream.
try_get_org_repo_origin_first(git) ==
    IF ~git.found THEN error("Could not find or open a git repository")
    ELSE LET remote == IF git.origin # None THEN git.origin ELSE git.upstream
         IN IF remote = None THEN error("Could not find an 'upstream' or 'origin' remote")
            ELSE IF remote[1].url = None THEN error("Remote URL not valid unicode")
            ELSE OrgRepo(remote[1].url[1])

\* Variant of try_get_org_repo: without a repository, placeholder coordinates.
try_get_org_repo_default(git) ==
    IF ~git.found THEN Ok(<< <<"u","n","k","n","o","w","n">>, <<"u","n","k","n","o","w","n">> >>)
    ELSE LET remote == IF git.upstream # None THEN git.upstream ELSE git.origin
         IN IF remote = None THEN error("Could not find an 'upstream' or 'origin' remote")
            ELSE IF remote[1].url = None THEN error("Remote URL not valid unicode")
            ELSE OrgRepo(remote[1].url[1])

\* fn try_get_org_repo() -> Result<(String, String), syn::Error>
try_get_org_repo(git) ==
    IF ~git.found THEN error("Could not find or open a git repository")
    ELSE LET remote == IF git.upstream # None THEN git.upstream ELSE git.origin
         IN IF remote = None THEN error("Could not find an 'upstream' or 'origin' remote")
            ELSE IF remote[1].url = None THEN error("Remote URL not valid unicode")
            ELSE OrgRepo(remote[1].url[1])

\* The result of parse_issue_pattern, with the branch that produced it and
\* the result of the call of try_get_org_repo it made (None: no call).
Resolved(tier, lookup, result) == [tier |-> tier, lookup |-> lookup, result |-> result]

\* captures.get(n).unwrap().as_str() of every n in ns, or the panic of the
\* first unwrap of None.
Unwrap(regex, s, m, ns) ==
    IF \E i \in 1..Len(ns) : get(regex, s, m, ns[i]) = None
    THEN Panic(UnwrapNone)
    ELSE Ok([i \in 1..Len(ns) |-> get(regex, s, m, ns[i])[1]])

\* Result::map_err(|_| error(m))
MapErr(r, m) == IF r.kind = "Err" THEN error(m) ELSE r

\* BASE.clone().join(&format!("{}/{}/issues/{}", ..)).map_err(..), or the
\* error or panic that org_repo or the unwrapped captures c ended with.
JoinFragments(org_repo, c, org, repo, issue) ==
    IF org_repo.kind # "Ok" THEN org_repo
    ELSE IF c.kind # "Ok" THEN c
    ELSE MapErr(Join(BASE, org, repo, issue), "Could not join URL fragments")

\* lines 185-197, r being try_get_org_repo() and c the unwrapped capture
IssueTier(r, c) ==
    Resolved("ISSUE", Some(r), JoinFragments(r, c, r.val[1], r.val[2], c.val[1]))

\* lines 173-184, r being try_get_org_repo() and c the unwrapped captures
RepoIssueTier(r, c) ==
    Resolved("REPOISSUE", Some(r), JoinFragments(r, c, r.val[1], c.val[1], c.val[2]))

\* lines 162-172, c being the unwrapped captures
OwnerRepoIssueTier(c) ==
    Resolved("OWNERREPOISSUE", None, JoinFragments(Ok(<< >>), c, c.val[1], c.val[2], c.val[3]))

\* lines 185-197, m being ISSUE.captures(pattern)
issue_only(pattern, git, m) ==
    IF m # NoMatch
    THEN IssueTier(try_get_org_repo(git), Unwrap(ISSUE, pattern, m, <<1>>))
    ELSE Resolved("none", None, error("Could not parse issue pattern"))

\* lines 173-197, m being REPOISSUE.captures(pattern)
repo_issue(pattern, git, m) ==
    IF m # NoMatch
    THEN RepoIssueTier(try_get_org_repo(git), Unwrap(REPOISSUE, pattern, m, <<1, 2>>))
    ELSE issue_only(pattern, git, captures(ISSUE, pattern))

\* lines 162-197, m being OWNERREPOISSUE.captures(pattern)
owner_repo_issue(pattern, git, m) ==
    IF m # NoMatch
    THEN OwnerRepoIssueTier(Unwrap(OWNERREPOISSUE, pattern, m, <<1, 2, 3>>))
    ELSE repo_issue(pattern, git, captures(REPOISSUE, pattern))

\* fn parse_issue_pattern(pattern: &str) -> Result<Url, syn::Error>
parse_issue_pattern(pattern, git) ==
    IF is_match(URL, pattern)
    THEN Resolved("URL", None,
             MapErr(UrlParse(pattern), "URL matched regex but was not accepted by the URL crate"))
    ELSE owner_repo_issue(pattern, git, captures(OWNERREPOISSUE, pattern))

\* Variant of parse_args: the second literal is not handed on.
parse_args_drops_reason(args) ==
    IF Len(args) = 0 THEN error("unexpected end of input, expected string literal")
    ELSE IF Len(args) < 1 \/ Len(args) > 2 THEN error("Expected between 1 and 2 arguments")
    ELSE Ok(<< args[1], None >>)

\* fn parse_args(input: TokenStream) -> Result<(String, Option<String>), syn::Error>
\* The input is the sequence of string literals between the commas.
parse_args(args) ==
    IF Len(args) = 0 THEN error("unexpected end of input, expected string literal")
    ELSE IF Len(args) < 1 \/ Len(args) > 2 THEN error("Expected between 1 and 2 arguments")
    ELSE Ok(<< args[1], IF Len(args) >= 2 THEN Some(args[2]) ELSE None >>)

\* HeaderValue::from_str accepts visible ASCII, space and tab.
HeaderValueOk(v) == \A i \in 1..Len(v) : v[i] \notin {"\n", "\r"}

\* fn github_client(api_key: Option<&str>) -> reqwest::blocking::Client
\* The client is its default headers.
github_client(api_key) ==
    IF api_key # None /\ ~HeaderValueOk(api_key[1])
    THEN Panic("called Result::unwrap() on an Err value: InvalidHeaderValue")
    ELSE Ok((IF api_key # None THEN {<<"authorization", api_key[1]>>} ELSE {})
            \cup {<<"user-agent", <<"b","l","o","c","k","e","d","-","r","s">>>>})

\* #[serde(untagged)] enum GithubIssueResponse { Ok { state }, Err { message } }
\* decoded from a JSON object (a function of its fields): the first variant
\* whose field is present.
GithubIssueResponse(body) ==
    IF "state" \in DOMAIN body THEN Ok([variant |-> "Ok", text |-> body["state"]])
    ELSE IF "message" \in DOMAIN body THEN Ok([variant |-> "Err", text |-> body["message"]])
    ELSE Panic("called Result::unwrap() on an Err value: data did not match any variant")

\* The diagnostic of fn warning(message) and of Diagnostic::spanned(.., Level::Warning, ..).
\* A formatted text is kept as the sequence of its pieces.
warning(text) == [level |-> "Warning", text |-> text]

\* The TokenStream the macro returns, or the panic it ends with.
\* Like a diagnostic's text, a message is the sequence of its pieces.
Pending == [kind |-> "pending", msg |-> << >>]
Empty == [kind |-> "empty", msg |-> << >>]
CompileError(m) == [kind |-> "compile_error", msg |-> <<m>>]
Abort(m) == [kind |-> "panic", msg |-> <<m>>]

\* Variant of gate: the check also runs outside CI, without a key.
gate_always(key, ci) ==
    IF key # None THEN Some(Some(key[1])) ELSE Some(None)

(* blocked, lines 84-90: Some(api_key) when the check is to run, None when *)
(* the macro returns silently.                                             *)
gate(key, ci) ==
    IF key # None THEN Some(Some(key[1]))
    ELSE IF ci THEN Some(None)
    ELSE None

\* Variant of interpret: the service's message is emitted without its prefix.
interpret_bare_message(issue, reason) ==
    IF issue.variant = "Err"
    THEN [emit |-> << warning(<<issue.text>>) >>, output |-> Empty]
    ELSE CASE issue.text = "open" -> [emit |-> << >>, output |-> Empty]
           [] issue.text = "closed" ->
                [emit |-> << warning(<< IF reason # None THEN reason[1] ELSE "Issue was closed." >>) >>,
                 output |-> Empty]
           [] OTHER -> [emit |-> << >>, output |-> Abort("unknown response")]

\* Variant of interpret: a state that is not "closed" counts as open.
interpret_unknown_as_open(issue, reason) ==
    IF issue.variant = "Err"
    THEN [emit |-> << warning(<<"Error fetching issue: ", issue.text>>) >>, output |-> Empty]
    ELSE CASE issue.text = "closed" ->
                [emit |-> << warning(<< IF reason # None THEN reason[1] ELSE "Issue was closed." >>) >>,
                 output |-> Empty]
           [] OTHER -> [emit |-> << >>, output |-> Empty]

(* blocked, lines 97-117: the diagnostics emitted for a decoded response   *)
(* and the way the macro ends.                                             *)
interpret(issue, reason) ==
    IF issue.variant = "Err"
    THEN [emit |-> << warning(<<"Error fetching issue: ", issue.text>>) >>, output |-> Empty]
    ELSE CASE issue.text = "open" -> [emit |-> << >>, output |-> Empty]
           [] issue.text = "closed" ->
                [emit |-> << warning(<< IF reason # None THEN reason[1] ELSE "Issue was closed." >>) >>,
                 output |-> Empty]
           [] OTHER -> [emit |-> << >>, output |-> Abort("unknown response")]

----------------------------------------------------------------------------
(* Inputs *)

Alphabet == {"a", "1", "#", "/"}

\* Every text over Alphabet of at most MaxLen characters.
ShortPatterns == UNION {[1..n -> Alphabet] : n \in 0..MaxLen}

\* The specifiers of the crate documentation, and texts around them.
DocPatterns ==
    { <<"4","2","3">>, <<"#","4","2","3">>, <<"4","2">>, <<"s","e","r","d","e","#","4","2","3">>, <<"s","e","r","d","e","/","4","2","3">>,
      <<"s","e","r","d","e","-","r","s","/","s","e","r","d","e","#","4","2","3">>, <<"s","e","r","d","e","-","r","s","/","s","e","r","d","e","/","4","2","3">>,
      <<"h","t","t","p","s",":","/","/","g","i","t","h","u","b",".","c","o","m","/","s","e","r","d","e","-","r","s","/","s","e","r","d","e","/","i","s","s","u","e","s","/","4","2","3">>,
      <<"h","t","t","p",":","/","/","g","i","t","h","u","b",".","c","o","m","/","s","e","r","d","e","-","r","s","/","s","e","r","d","e","/","i","s","s","u","e","s","/","4","2","3">>,
      <<"h","t","t","p","s",":","/","/","g","i","t","h","u","b",".","c","o","m","/","s","e","r","d","e","-","r","s","/","i","s","s","u","e","s","/","s","e","r","d","e","/","4","2","3">>,
      <<"s","e","e"," ","h","t","t","p","s",":","/","/","g","i","t","h","u","b",".","c","o","m","/","s","e","r","d","e","-","r","s","/","i","s","s","u","e","s","/","s","e","r","d","e","/","4","2","3">>,
      <<"a","/","b","/","1">>, <<"a","/","b","#","1","2">>, <<"a","-","b","/","c","_","d","/","7">>, <<"i","s","s","u","e"," ","4","2">>, <<"b","l","o","c","k","e","d">>, <<"s","e","r","d","e","-","r","s","/","s","e","r","d","e">> }

\* OWNER/REPO#N and OWNER/REPO/N over a few tokens and numbers.
Tokens == { <<"a">>, <<"1">>, <<"a","-","1">> }
Numbers == { <<"7">>, <<"4","2">> }
OwnerRepoPatterns ==
    { o \o <<"/">> \o r \o <<sep>> \o n : o \in Tokens, r \in Tokens, sep \in Sep, n \in Numbers }

Patterns == ShortPatterns \cup DocPatterns \cup OwnerRepoPatterns

Reasons == {"This code can be removed when the issue is closed"}

\* The literals of one macro call: none, a pattern, a pattern and a reason, or too many.
ArgLists ==
    {<< >>} \cup {<<p>> : p \in Patterns}
            \cup {<<p, r>> : p \in DocPatterns, r \in Reasons}
            \cup {<<<<"1">>, r, r>> : r \in Reasons}

RemoteUrls ==
    { <<"h","t","t","p","s",":","/","/","g","i","t","h","u","b",".","c","o","m","/","a","c","m","e","/","w","i","d","g","e","t","s",".","g","i","t">>,
      <<"g","i","t","@","g","i","t","h","u","b",".","c","o","m",":","r","u","s","t","-","l","a","n","g","/","c","a","r","g","o",".","g","i","t">>,
      <<"h","t","t","p","s",":","/","/","g","i","t","l","a","b",".","c","o","m","/","a","c","m","e","/","w","i","d","g","e","t","s",".","g","i","t">> }

Remotes == {None, Some(Remote(None))} \cup {Some(Remote(Some(u))) : u \in RemoteUrls}

GitRepos == {NoRepo} \cup {Repo(u, o) : u \in Remotes, o \in Remotes}

\* BLOCKED_GITHUB_API_KEY: unset, a usable value, a value with a line feed.
ApiKeys == {None, Some(<<"t","o","k","e","n">>), Some(<<"k","\n">>)}

\* What the request met: no answer, an answer that is no JSON object of
\* either shape, or a JSON object with the fields state and message.
NoAnswer == [answered |-> FALSE, state |-> None, message |-> None]
Body(state, message) == [answered |-> TRUE, state |-> state, message |-> message]
Responses ==
    {NoAnswer} \cup
    {Body(st, m) : st \in {None, Some("open"), Some("closed"), Some("reopened")},
                   m \in {None, Some("Not Found")}}

\* r.json::<GithubIssueResponse>() of a received body
json(resp) ==
    GithubIssueResponse([f \in {n \in {"state", "message"} : resp[n] # None} |-> resp[f][1]])

----------------------------------------------------------------------------
(* One expansion of blocked!(..) *)

VARIABLES
    input,          \* the literals of the macro call
    env_key,        \* BLOCKED_GITHUB_API_KEY
    env_ci,         \* ci_detective::CI::from_env() is Some
    git,            \* Repository::open_from_env() and its remotes
    pc,             \* position in fn blocked
    issue_pattern,  \* let (issue_pattern, reason)
    reason,
    resolved,       \* parse_issue_pattern's result, branch and remote lookup
    url,            \* let url
    api_key,        \* let api_key
    client,         \* let client: its default headers
    requests,       \* the requests sent so far
    response,       \* what the request met
    issue,          \* let issue
    diagnostics,    \* the diagnostics emitted so far
    output          \* the returned TokenStream or the panic

vars == << input, env_key, env_ci, git, pc, issue_pattern, reason, resolved, url,
           api_key, client, requests, response, issue, diagnostics, output >>

NotYet == [tier |-> "", lookup |-> None, result |-> [kind |-> "", val |-> << >>, msg |-> ""]]
NoIssue == [variant |-> "", text |-> ""]

Init ==
    /\ input \in ArgLists
    /\ env_key \in ApiKeys
    /\ env_ci \in BOOLEAN
    /\ git \in GitRepos
    /\ pc = "parse_args"
    /\ issue_pattern = << >>
    /\ reason = None
    /\ resolved = NotYet
    /\ url = << >>
    /\ api_key = None
    /\ client = {}
    /\ requests = << >>
    /\ response = NoAnswer
    /\ issue = NoIssue
    /\ diagnostics = << >>
    /\ output = Pending

Return(out) == pc' = "done" /\ output' = out

\* lines 71-75
ParseArgs ==
    /\ pc = "parse_args"
    /\ LET r == parse_args(input)
       IN IF r.kind = "Ok"
          THEN /\ issue_pattern' = r.val[1]
               /\ reason' = r.val[2]
               /\ pc' = "parse_issue_pattern"
               /\ UNCHANGED output
          ELSE /\ Return(CompileError(r.msg))
               /\ UNCHANGED << issue_pattern, reason >>
    /\ UNCHANGED << input, env_key, env_ci, git, resolved, url, api_key, client,
                    requests, response, issue, diagnostics >>

\* lines 78-81: let url = match .. { Ok(url) => url, Err(err) => return .. }
Matched(r) ==
    /\ resolved' = r
    /\ CASE r.result.kind = "Ok" ->
              url' = r.result.val /\ pc' = "env" /\ UNCHANGED output
         [] r.result.kind = "Err" ->
              Return(CompileError(r.result.msg)) /\ UNCHANGED url
         [] r.result.kind = "Panic" ->
              Return(Abort(r.result.msg)) /\ UNCHANGED url

\* lines 77-81
ResolvePattern ==
    /\ pc = "parse_issue_pattern"
    /\ Matched(parse_issue_pattern(issue_pattern, git))
    /\ UNCHANGED << input, env_key, env_ci, git, issue_pattern, reason, api_key, client,
                    requests, response, issue, diagnostics >>

\* lines 83-90
CheckEnv ==
    /\ pc = "env"
    /\ LET g == gate(env_key, env_ci)
       IN IF g # None
          THEN api_key' = g[1] /\ pc' = "github_client" /\ UNCHANGED output
          ELSE Return(Empty) /\ UNCHANGED api_key
    /\ UNCHANGED << input, env_key, env_ci, git, issue_pattern, reason, resolved, url,
                    client, requests, response, issue, diagnostics >>

\* line 92
BuildClient ==
    /\ pc = "github_client"
    /\ LET c == github_client(api_key)
       IN IF c.kind = "Ok"
          THEN client' = c.val /\ pc' = "send" /\ UNCHANGED output
          ELSE Return(Abort(c.msg)) /\ UNCHANGED client
    /\ UNCHANGED << input, env_key, env_ci, git, issue_pattern, reason, resolved, url,
                    api_key, requests, response, issue, diagnostics >>

\* lines 94-96: client.get(url).send().unwrap(), r.json().unwrap()
Fetch ==
    /\ pc = "send"
    /\ requests' = Append(requests, [url |-> url, headers |-> client])
    /\ \E resp \in Responses :
          /\ response' = resp
          /\ IF ~resp.answered
             THEN Return(Abort("called Result::unwrap() on an Err value: reqwest::Error"))
                  /\ UNCHANGED issue
             ELSE LET j == json(resp)
                  IN IF j.kind = "Ok"
                     THEN issue' = j.val /\ pc' = "match" /\ UNCHANGED output
                     ELSE Return(Abort(j.msg)) /\ UNCHANGED issue
    /\ UNCHANGED << input, env_key, env_ci, git, issue_pattern, reason, resolved, url,
                    api_key, client, diagnostics >>

\* lines 97-117
Interpret ==
    /\ pc = "match"
    /\ LET r == interpret(issue, reason)
       IN diagnostics' = diagnostics \o r.emit /\ Return(r.output)
    /\ UNCHANGED << input, env_key, env_ci, git, issue_pattern, reason, resolved, url,
                    api_key, client, requests, response, issue >>

\* pub fn blocked(input: TokenStream) -> TokenStream
Next ==
    \/ ParseArgs
    \/ ResolvePattern
    \/ CheckEnv
    \/ BuildClient
    \/ Fetch
    \/ Interpret

Spec == Init /\ [][Next]_vars

----------------------------------------------------------------------------
(* Vocabulary of the properties *)

Done == pc = "done"
NoCredential == env_key = None
PatternParsed == resolved # NotYet

\* The outcomes: nothing reported, one warning, a compile error, a panic.
Pass == output = Empty /\ diagnostics = << >>
Warn(text) == output = Empty /\ diagnostics = << warning(text) >>
ParseError == output.kind = "compile_error"
Aborted == output.kind = "panic"

\* The documented shapes of a whole pattern, p[a..b] being a token or a number.
IsToken(p, a, b) == a <= b /\ \A k \in a..b : p[k] \in WordHyphen
IsNumber(p, a, b) == a <= b /\ \A k \in a..b : p[k] \in Digit

\* OWNER/REPO#N or OWNER/REPO/N with the separators at i and j
OwnerRepoIssueAt(p, i, j) ==
    /\ p[i] = "/" /\ p[j] \in Sep
    /\ IsToken(p, 1, i - 1)
    /\ IsToken(p, i + 1, j - 1)
    /\ IsNumber(p, j + 1, Len(p))

\* REPO#N or REPO/N with the separator at j
RepoIssueAt(p, j) ==
    p[j] \in Sep /\ IsToken(p, 1, j - 1) /\ IsNumber(p, j + 1, Len(p))

\* #N or N
IssueShape(p) ==
    IsNumber(p, 1, Len(p)) \/ (Len(p) >= 2 /\ p[1] = "#" /\ IsNumber(p, 2, Len(p)))

HostPrefixes == { <<"h","t","t","p",":","/","/","g","i","t","h","u","b",".","c","o","m","/">>, <<"h","t","t","p","s",":","/","/","g","i","t","h","u","b",".","c","o","m","/">> }

\* http(s)://github.com/OWNER/REPO/issues/N: h is the prefix, i the slash
\* after OWNER, j the slash after REPO
UrlAt(p, h, i, j) ==
    /\ Len(p) >= j + 8 /\ Len(p) >= Len(h)
    /\ p[i] = "/" /\ p[j] = "/"
    /\ SubSeq(p, 1, Len(h)) = h
    /\ IsToken(p, Len(h) + 1, i - 1)
    /\ IsToken(p, i + 1, j - 1)
    /\ SubSeq(p, j, j + 7) = <<"/","i","s","s","u","e","s","/">>
    /\ IsNumber(p, j + 8, Len(p))

AcceptedShape(p) ==
    \/ \E h \in HostPrefixes : \E i, j \in 1..Len(p) : UrlAt(p, h, i, j)
    \/ \E i, j \in 1..Len(p) : OwnerRepoIssueAt(p, i, j)
    \/ \E j \in 1..Len(p) : RepoIssueAt(p, j)
    \/ IssueShape(p)

\* BASE/{org}/{repo}/issues/{n}
Endpoint(org, repo, n) == BASE \o org \o <<"/">> \o repo \o <<"/","i","s","s","u","e","s","/">> \o n

\* The coordinates that the remotes of GitRepos stand for.
KnownCoords(remote) ==
    CASE remote.url = None -> error("Remote URL not valid unicode")
      [] remote.url = Some(<<"h","t","t","p","s",":","/","/","g","i","t","h","u","b",".","c","o","m","/","a","c","m","e","/","w","i","d","g","e","t","s",".","g","i","t">>) -> Ok(<< <<"a","c","m","e">>, <<"w","i","d","g","e","t","s">> >>)
      [] remote.url = Some(<<"g","i","t","@","g","i","t","h","u","b",".","c","o","m",":","r","u","s","t","-","l","a","n","g","/","c","a","r","g","o",".","g","i","t">>) -> Ok(<< <<"r","u","s","t","-","l","a","n","g">>, <<"c","a","r","g","o">> >>)
      [] remote.url = Some(<<"h","t","t","p","s",":","/","/","g","i","t","l","a","b",".","c","o","m","/","a","c","m","e","/","w","i","d","g","e","t","s",".","g","i","t">>) -> error("Failed to parse remote URL")

\* upstream before origin
ExpectedLookup(g) ==
    IF ~g.found THEN error("Could not find or open a git repository")
    ELSE IF g.upstream # None THEN KnownCoords(g.upstream[1])
    ELSE IF g.origin # None THEN KnownCoords(g.origin[1])
    ELSE error("Could not find an 'upstream' or 'origin' remote")

----------------------------------------------------------------------------
(* C1 *)

\* C1 as stated: without a credential and outside CI, a call with a pattern
\* makes no request and ends in Pass, whatever the pattern.
C1_PassWhateverThePattern ==
    (Done /\ NoCredential /\ ~env_ci /\ Len(input) \in {1, 2})
        => (requests = << >> /\ Pass)

\* C1 amended: without a credential and outside CI no request is ever made and
\* no diagnostic is emitted; the call ends in Pass exactly when the pattern
\* resolved to an endpoint, and in a compile error exactly when the arguments
\* or the pattern were rejected.
C1_SkipAfterResolution ==
    (NoCredential /\ ~env_ci) =>
        /\ requests = << >>
        /\ diagnostics = << >>
        /\ Done => /\ (Pass <=> resolved.result.kind = "Ok")
                   /\ (ParseError <=> (~PatternParsed \/ resolved.result.kind = "Err"))

C1_Witness ==
    Done /\ NoCredential /\ ~env_ci /\ resolved.result.kind = "Ok" /\ Pass

----------------------------------------------------------------------------
(* C2 *)

\* C2 as stated: a response {message: m} ends the call in a failure that
\* carries m, with no warning.
C2_MessageIsFailure ==
    \A m \in {"Not Found"} :
        (Done /\ response = Body(None, Some(m)))
            => ((ParseError \/ Aborted) /\ output.msg = <<m>> /\ diagnostics = << >>)

\* C2 amended: a response {message: m} ends the call with exactly one
\* warning, "Error fetching issue: " followed by m, and an empty token
\* stream; the state is not interpreted and nothing fails.
C2_MessageIsWarning ==
    \A m \in {"Not Found"} :
        (Done /\ response = Body(None, Some(m)))
            => Warn(<<"Error fetching issue: ", m>>)

C2_Witness ==
    Done /\ response = Body(None, Some("Not Found")) /\ Len(diagnostics) = 1

----------------------------------------------------------------------------
(* C3 *)

UnknownState == response.answered /\ response.state \notin {None, Some("open"), Some("closed")}

\* C3 as stated: a state other than "open" and "closed" ends the call in the
\* error outcome "unrecognized state: " followed by the state.
C3_UnknownStateIsError ==
    (Done /\ UnknownState)
        => (output = [kind |-> "compile_error",
                      msg |-> <<"unrecognized state: ", response.state[1]>>]
            /\ diagnostics = << >>)

\* C3 amended: a state other than "open" and "closed" ends the call in a
\* panic with the message "unknown response"; it is neither Pass nor Warn,
\* and no diagnostic is emitted.
C3_UnknownStatePanics ==
    (Done /\ UnknownState)
        => (output = Abort("unknown response") /\ diagnostics = << >>)

C3_Witness ==
    Done /\ response.state = Some("reopened") /\ Aborted

----------------------------------------------------------------------------
(* C4 *)

\* C4: a pattern REPO#N or REPO/N, with a remote that gives coordinates,
\* resolves in the repo/issue branch to BASE/{org}/{REPO}/issues/{N}, org
\* being the remote's and REPO the pattern's.
C4_RepoIssueEndpoint ==
    PatternParsed => \A j \in 1..Len(issue_pattern) :
        (RepoIssueAt(issue_pattern, j) /\ ExpectedLookup(git).kind = "Ok")
            => /\ resolved.tier = "REPOISSUE"
               /\ resolved.result =
                    Ok(Endpoint(ExpectedLookup(git).val[1],
                                SubSeq(issue_pattern, 1, j - 1),
                                SubSeq(issue_pattern, j + 1, Len(issue_pattern))))

----------------------------------------------------------------------------
(* C5 *)

\* C5: a pattern http(s)://github.com/OWNER/REPO/issues/N resolves in the
\* URL branch, to an endpoint of exactly OWNER, REPO and N.
C5_DocumentedUrl ==
    PatternParsed => \A h \in HostPrefixes : \A i, j \in 1..Len(issue_pattern) :
        UrlAt(issue_pattern, h, i, j)
            => /\ resolved.tier = "URL"
               /\ resolved.result.kind = "Ok"
               /\ resolved.result.val \in
                    { issue_pattern,
                      Endpoint(SubSeq(issue_pattern, Len(h) + 1, i - 1),
                               SubSeq(issue_pattern, i + 1, j - 1),
                               SubSeq(issue_pattern, j + 8, Len(issue_pattern))) }

----------------------------------------------------------------------------
(* C6 *)

\* C6: a call that ends in a compile error has sent no request; the pattern
\* "42" without a repository ends in one, whatever the credential and CI.
C6_ParseErrorBeforeNetwork ==
    /\ ParseError => requests = << >>
    /\ (Done /\ issue_pattern = <<"4","2">> /\ ~git.found)
          => (output = CompileError("Could not find or open a git repository")
              /\ requests = << >>)

C6_Witness ==
    /\ Done /\ issue_pattern = <<"4","2">> /\ ~git.found
    /\ ~NoCredential /\ env_ci
    /\ ParseError /\ requests = << >>

----------------------------------------------------------------------------
(* C7 *)

\* C7: a response with state "closed" ends the call with exactly one warning,
\* the second literal of the call if there is one and "Issue was closed."
\* otherwise, and with no error.
C7_ClosedWarns ==
    (Done /\ response.answered /\ response.state = Some("closed"))
        => Warn(<< IF Len(input) = 2 THEN input[2] ELSE "Issue was closed." >>)

C7_Witness ==
    /\ Done /\ response = Body(Some("closed"), None)
    /\ Len(input) = 2 /\ diagnostics = << warning(<<input[2]>>) >>

----------------------------------------------------------------------------
(* C8 *)

\* C8: a pattern that is not as a whole one of the documented shapes is
\* rejected with "Could not parse issue pattern", without a remote lookup.
C8_OtherPatternsRejected ==
    (PatternParsed /\ ~AcceptedShape(issue_pattern))
        => /\ resolved.result = error("Could not parse issue pattern")
           /\ resolved.lookup = None

----------------------------------------------------------------------------
(* C9 *)

\* C9: whenever the remote lookup runs in a repository, upstream alone
\* decides its result if upstream exists, origin if only origin exists, and
\* without either it is the error of the missing remote.
C9_UpstreamBeforeOrigin ==
    (resolved.lookup # None /\ git.found) =>
        /\ resolved.lookup[1] = ExpectedLookup(git)
        /\ git.upstream # None => resolved.lookup[1] = KnownCoords(git.upstream[1])
        /\ (git.upstream = None /\ git.origin # None)
              => resolved.lookup[1] = KnownCoords(git.origin[1])
        /\ (git.upstream = None /\ git.origin = None)
              => resolved.lookup[1] = error("Could not find an 'upstream' or 'origin' remote")

C9_Witness ==
    /\ resolved.lookup = Some(Ok(<< <<"a","c","m","e">>, <<"w","i","d","g","e","t","s">> >>))
    /\ git.upstream = Some(Remote(Some(<<"h","t","t","p","s",":","/","/","g","i","t","h","u","b",".","c","o","m","/","a","c","m","e","/","w","i","d","g","e","t","s",".","g","i","t">>)))
    /\ git.origin = Some(Remote(Some(<<"g","i","t","@","g","i","t","h","u","b",".","c","o","m",":","r","u","s","t","-","l","a","n","g","/","c","a","r","g","o",".","g","i","t">>)))

----------------------------------------------------------------------------
(* C10 *)

\* C10: a pattern OWNER/REPO#N or OWNER/REPO/N resolves to
\* BASE/OWNER/REPO/issues/N without a remote lookup, repository or not.
C10_OwnerRepoIssueEndpoint ==
    PatternParsed => \A i, j \in 1..Len(issue_pattern) :
        OwnerRepoIssueAt(issue_pattern, i, j)
            => /\ resolved.lookup = None
               /\ resolved.result =
                    Ok(Endpoint(SubSeq(issue_pattern, 1, i - 1),
                                SubSeq(issue_pattern, i + 1, j - 1),
                                SubSeq(issue_pattern, j + 1, Len(issue_pattern))))

C10_Witness ==
    /\ issue_pattern = <<"s","e","r","d","e","-","r","s","/","s","e","r","d","e","#","4","2","3">> /\ ~git.found
    /\ resolved.result = Ok(<<"h","t","t","p","s",":","/","/","a","p","i",".","g","i","t","h","u","b",".","c","o","m","/","r","e","p","o","s","/","s","e","r","d","e","-","r","s","/","s","e","r","d","e","/","i","s","s","u","e","s","/","4","2","3">>)

====
